---- MODULE Spec2Model ----
(***************************************************************************)
(* Degrees of separation in a road network: the breadth-first search of    *)
(* src/src/separation_deg.rs and the statistics main.rs derives from it.   *)
(*                                                                         *)
(* Two specifications share the bfs loop:                                  *)
(*   Spec     main(): the six statistics, called in main's order, each     *)
(*            sweeping bfs over every key of the adjacency list;           *)
(*   SpecBfs  one call bfs(adj_list, start_node) on a directed store.      *)
(*                                                                         *)
(* f64 values are modelled as exact fractions [num, den]; den = 0 is a     *)
(* non-finite value (0/0 is NaN, n/0 is an infinity).  i32 sums stay far   *)
(* below 2^31 at these sizes, so they are plain integers.                  *)
(***************************************************************************)
EXTENDS Integers, Sequences, FiniteSets, TLC

\* Node identifiers of the stores main() is run on: 1..MaxNode.
MaxNode == 3
\* Node identifiers of the stores a single bfs call is run on: 1..MaxBfsNode.
MaxBfsNode == 4
\* Largest number of (directed) neighbor entries of such a store.
MaxArcs == 3

Nodes == 1..MaxNode
BfsNodes == 1..MaxBfsNode

VARIABLES
    adjacency_list,   \* HashMap<i32, HashSet<i32>>: key -> set of neighbors
    pc,               \* "main" | "sweep" | "bfs" | "returned" | "panic"
    fn,               \* the function being executed
    next_call,        \* index in Calls of main's next call
    remaining,        \* keys the iterator adjacency_list.keys() has not yielded
    city,             \* the key the sweep is on / bfs's start_node
    visited,          \* bfs: HashSet
    queue,            \* bfs: VecDeque of <<node, distance>>
    distances,        \* bfs: HashMap node -> distance
    current,          \* bfs: <<current_node, distance>> of the running iteration
    pending,          \* bfs: neighbors the for loop has not visited yet
    max_degrees,      \* Vec (HashSet in calculate_connected_components)
    total_length,
    total_paths,
    separation_distribution,
    all_distances,
    report,           \* what main has received from the calls so far
    tally,            \* history: (sum, count) each averaging function divided
    maps,             \* history: start node -> map bfs returned, this sweep
    pushes,           \* history: node -> times pushed on the queue, this bfs run
    pops              \* history: node -> times popped from the queue, this bfs run

vars == <<adjacency_list, pc, fn, next_call, remaining, city, visited, queue,
          distances, current, pending, max_degrees, total_length, total_paths,
          separation_distribution, all_distances, report, tally, maps,
          pushes, pops>>

bfsVars == <<visited, queue, distances, current, pending, pushes, pops>>
accVars == <<max_degrees, total_length, total_paths, separation_distribution,
             all_distances>>

----------------------------------------------------------------------------
(* Helpers: maps, sums, fractions *)

EmptyMap == << >>

insert(m, k, v) == [x \in (DOMAIN m) \cup {k} |-> IF x = k THEN v ELSE m[x]]

values(m) == {m[k] : k \in DOMAIN m}

\* One more occurrence of k in a history count.
Counted(m, k) == insert(m, k, (IF k \in DOMAIN m THEN m[k] ELSE 0) + 1)

RECURSIVE SumSeq(_)
SumSeq(s) == IF s = << >> THEN 0 ELSE Head(s) + SumSeq(Tail(s))

RECURSIVE SumMap(_)
SumMap(m) ==
    IF DOMAIN m = {} THEN 0
    ELSE LET k == CHOOSE x \in DOMAIN m : TRUE
         IN m[k] + SumMap([x \in (DOMAIN m) \ {k} |-> m[x]])

MaxOf(S) == CHOOSE x \in S : \A y \in S : y <= x

Abs(x) == IF x < 0 THEN -x ELSE x

RECURSIVE Gcd(_, _)
Gcd(a, b) == IF b = 0 THEN a ELSE Gcd(b, a % b)

NaN == [num |-> 0, den |-> 0]

\* a / b on f64: IEEE division of two finite values.
Frac(a, b) ==
    IF b = 0 THEN [num |-> IF a = 0 THEN 0 ELSE IF a > 0 THEN 1 ELSE -1, den |-> 0]
    ELSE LET g == Gcd(Abs(a), Abs(b))
             s == IF b < 0 THEN -1 ELSE 1
         IN [num |-> s * (a \div g), den |-> s * (b \div g)]

IsFinite(x) == x.den # 0

\* x / y, x - y, x * y, x + y on f64 values; a non-finite operand gives NaN
\* (no infinity reaches these operations: the only zero divisor is 0/0).
FDiv(x, y) == IF IsFinite(x) /\ IsFinite(y) THEN Frac(x.num * y.den, x.den * y.num) ELSE NaN
FSub(x, y) == IF IsFinite(x) /\ IsFinite(y) THEN Frac(x.num * y.den - y.num * x.den, x.den * y.den) ELSE NaN
FAdd(x, y) == IF IsFinite(x) /\ IsFinite(y) THEN Frac(x.num * y.den + y.num * x.den, x.den * y.den) ELSE NaN
FMul(x, y) == IF IsFinite(x) /\ IsFinite(y) THEN Frac(x.num * y.num, x.den * y.den) ELSE NaN
FLess(x, y) == x.num * y.den < y.num * x.den

\* i as f64
AsF64(i) == [num |-> i, den |-> 1]

\* f64::sqrt, kept symbolic: the square root of a fraction is not a fraction.
Sqrt(x) == IF IsFinite(x) THEN [sqrt_of |-> x] ELSE NaN

----------------------------------------------------------------------------
(* The adjacency stores the specifications start from *)

\* What build_adjacency_list_from_csv inserts for one row "city1,city2".
AddEdge(store, city1, city2) ==
    LET with1 == insert(store, city1,
                        (IF city1 \in DOMAIN store THEN store[city1] ELSE {}) \cup {city2})
    IN insert(with1, city2,
              (IF city2 \in DOMAIN with1 THEN with1[city2] ELSE {}) \cup {city1})

\* 1 - 2 - 3
build_sample_network ==
    AddEdge(AddEdge(EmptyMap, 1, 2), 2, 3)

Closed(store) == \A k \in DOMAIN store : store[k] \subseteq DOMAIN store
Symmetric(store) ==
    \A u \in DOMAIN store : \A v \in store[u] : v \in DOMAIN store /\ u \in store[v]

\* Undirected stores: what the reader builds from rows over the keys K (an
\* edge {u} is the row "u,u"), plus keys entered with or-default and no row.
SymStores ==
    UNION { { [k \in K |-> {v \in K : {k, v} \in E}] :
                E \in SUBSET {{u, v} : u \in K, v \in K} } :
            K \in SUBSET Nodes }

RECURSIVE ArcSets(_, _)
ArcSets(P, m) ==
    IF m = 0 THEN {{}}
    ELSE LET prev == ArcSets(P, m - 1)
         IN prev \cup {a \cup {p} : a \in prev, p \in P}

\* Directed stores in which every neighbor is a key, with at most MaxArcs
\* neighbor entries.
BfsStores ==
    UNION { { [k \in K |-> {v \in K : <<k, v>> \in A}] :
                A \in ArcSets(K \X K, MaxArcs) } :
            K \in SUBSET BfsNodes }

----------------------------------------------------------------------------
(* main's calls, in order *)

Calls == << "calculate_max_degree_of_separation",
            "calculate_average_max_degree",
            "calculate_connected_components",
            "calculate_average_shortest_path_length",
            "calculate_mean_and_std_dev",
            "calculate_normalized_separation_distribution" >>

NoEntry == << >>

Init ==
    /\ adjacency_list \in SymStores
    /\ pc = "main"
    /\ fn = "main"
    /\ next_call = 1
    /\ remaining = {}
    /\ city = 0
    /\ visited = {}
    /\ queue = << >>
    /\ distances = EmptyMap
    /\ current = NoEntry
    /\ pending = {}
    /\ max_degrees = << >>
    /\ total_length = 0
    /\ total_paths = 0
    /\ separation_distribution = EmptyMap
    /\ all_distances = << >>
    /\ report = EmptyMap
    /\ tally = EmptyMap
    /\ maps = EmptyMap
    /\ pushes = EmptyMap
    /\ pops = EmptyMap

\* bfs(adj_list, start_node) called directly, after its first statements.
InitBfs ==
    /\ adjacency_list \in BfsStores
    /\ pc = "bfs"
    /\ fn = "bfs"
    /\ next_call = 0
    /\ remaining = {}
    /\ city \in BfsNodes
    /\ visited = {city}
    /\ queue = << <<city, 0>> >>
    /\ distances = EmptyMap
    /\ current = NoEntry
    /\ pending = {}
    /\ max_degrees = << >>
    /\ total_length = 0
    /\ total_paths = 0
    /\ separation_distribution = EmptyMap
    /\ all_distances = << >>
    /\ report = EmptyMap
    /\ tally = EmptyMap
    /\ maps = EmptyMap
    /\ pushes = Counted(EmptyMap, city)
    /\ pops = EmptyMap

----------------------------------------------------------------------------
(* bfs *)

\* A gate that asks whether the neighbor has been popped, not whether it has
\* been seen.
visited_insert_unprocessed(neighbor) == neighbor \notin DOMAIN distances
\* visited.insert(neighbor): TRUE iff the value was not present.
visited_insert(neighbor) == neighbor \notin visited

\* A neighbor entered two levels down, or on the level of its parent.
next_distance_skip(distance) == distance + 2
next_distance_same(distance) == distance
\* distance + 1
next_distance(distance) == distance + 1

push_back(q, e) == Append(q, e)

\* while let Some((current_node, distance)) = queue.pop_front():
\* record the distance, then start the for loop over adj_list[&current_node]
\* (indexing a HashMap with an absent key panics).
PopFront ==
    /\ pc = "bfs"
    /\ pending = {}
    /\ queue # << >>
    /\ LET e == Head(queue)
       IN /\ queue' = Tail(queue)
          /\ current' = e
          /\ distances' = insert(distances, e[1], e[2])
          /\ pops' = Counted(pops, e[1])
          /\ IF e[1] \in DOMAIN adjacency_list
                THEN pending' = adjacency_list[e[1]] /\ pc' = "bfs"
                ELSE pending' = {} /\ pc' = "panic"
    /\ UNCHANGED <<adjacency_list, fn, next_call, remaining, city, visited,
                   accVars, report, tally, maps, pushes>>

\* One iteration of the for loop; a HashSet yields its elements in any order.
VisitNeighbor ==
    /\ pc = "bfs"
    /\ pending # {}
    /\ \E neighbor \in pending :
          /\ pending' = pending \ {neighbor}
          /\ visited' = visited \cup {neighbor}
          /\ IF visited_insert(neighbor)
                THEN /\ queue' = push_back(queue, <<neighbor, next_distance(current[2])>>)
                     /\ pushes' = Counted(pushes, neighbor)
                ELSE UNCHANGED <<queue, pushes>>
    /\ UNCHANGED <<adjacency_list, pc, fn, next_call, remaining, city, distances,
                   current, accVars, report, tally, maps, pops>>

\* The while loop has ended: queue.pop_front() gave None.
BfsFinished == pc = "bfs" /\ pending = {} /\ queue = << >>

\* The direct call returns `distances`.
ReturnBfs ==
    /\ BfsFinished
    /\ fn = "bfs"
    /\ pc' = "returned"
    /\ maps' = insert(maps, city, distances)
    /\ UNCHANGED <<adjacency_list, fn, next_call, remaining, city, bfsVars,
                   accVars, report, tally>>

NextBfs == PopFront \/ VisitNeighbor \/ ReturnBfs

SpecBfs == InitBfs /\ [][NextBfs]_vars

\* bfs is a sequential loop: a step that can be taken is taken.
FairSpecBfs == SpecBfs /\ WF_vars(NextBfs)

----------------------------------------------------------------------------
(* The statistics: each sweeps bfs over adjacency_list.keys() *)

\* main calls the next function; its locals are fresh.
Call ==
    /\ pc = "main"
    /\ next_call <= Len(Calls)
    /\ fn' = Calls[next_call]
    /\ pc' = "sweep"
    /\ remaining' = DOMAIN adjacency_list
    /\ max_degrees' = << >>
    /\ total_length' = 0
    /\ total_paths' = 0
    /\ separation_distribution' = EmptyMap
    /\ all_distances' = << >>
    /\ maps' = EmptyMap
    /\ UNCHANGED <<adjacency_list, next_call, city, bfsVars, report, tally>>

\* The keys iterator yields the next key (a HashMap yields its keys in any
\* order) and bfs is entered with it: lines 7-13.
NextCity ==
    /\ pc = "sweep"
    /\ \E c \in remaining :
          /\ remaining' = remaining \ {c}
          /\ city' = c
          /\ visited' = {c}
          /\ queue' = push_back(<< >>, <<c, 0>>)
          /\ pushes' = Counted(EmptyMap, c)
    /\ distances' = EmptyMap
    /\ current' = NoEntry
    /\ pending' = {}
    /\ pops' = EmptyMap
    /\ pc' = "bfs"
    /\ UNCHANGED <<adjacency_list, fn, next_call, accVars, report, tally, maps>>

\* bfs returns to the sweep: its locals are dropped.
BfsReturns ==
    /\ BfsFinished
    /\ pc' = "sweep"
    /\ maps' = insert(maps, city, distances)
    /\ visited' = {}
    /\ queue' = << >>
    /\ distances' = EmptyMap
    /\ current' = NoEntry
    /\ pending' = {}
    /\ pushes' = EmptyMap
    /\ pops' = EmptyMap
    /\ city' = 0
    /\ UNCHANGED <<adjacency_list, fn, next_call, remaining, report, tally>>

\* The function returns its value to main.
Returns(fields, sum, count) ==
    /\ pc = "sweep"
    /\ remaining = {}
    /\ pc' = "main"
    /\ next_call' = next_call + 1
    /\ fn' = "main"
    /\ report' = fields @@ report
    /\ tally' = insert(tally, fn, [sum |-> sum, count |-> count])
    /\ max_degrees' = << >>
    /\ total_length' = 0
    /\ total_paths' = 0
    /\ separation_distribution' = EmptyMap
    /\ all_distances' = << >>
    /\ UNCHANGED <<adjacency_list, remaining, city, bfsVars, maps>>

\* The least value instead of the greatest.
max_value_min(dist) == IF DOMAIN dist = {} THEN 0 ELSE -MaxOf({-d : d \in values(dist)})
\* *distances.values().max().unwrap_or(&0)
max_value(dist) == IF DOMAIN dist = {} THEN 0 ELSE MaxOf(values(dist))

\* *max_degrees.iter().max().unwrap_or(&0)
max_of_vec(v) == IF v = << >> THEN 0 ELSE MaxOf({v[i] : i \in DOMAIN v})

(* calculate_max_degree_of_separation *)

MaxDegreeCity ==
    /\ fn = "calculate_max_degree_of_separation"
    /\ BfsReturns
    /\ max_degrees' = Append(max_degrees, max_value(distances))
    /\ UNCHANGED <<total_length, total_paths, separation_distribution, all_distances>>

MaxDegreeReturns ==
    /\ fn = "calculate_max_degree_of_separation"
    /\ Returns("max_degree_of_separation" :> max_of_vec(max_degrees),
               0, Len(max_degrees))

(* calculate_average_max_degree *)

AverageMaxCity ==
    /\ fn = "calculate_average_max_degree"
    /\ BfsReturns
    /\ max_degrees' = Append(max_degrees, max_value(distances))
    /\ UNCHANGED <<total_length, total_paths, separation_distribution, all_distances>>

\* max_degrees.iter().sum::<i32>() as f64 / max_degrees.len() as f64
mean_of_vec(v) == FDiv(AsF64(SumSeq(v)), AsF64(Len(v)))

AverageMaxReturns ==
    /\ fn = "calculate_average_max_degree"
    /\ Returns("average_max_degree" :> mean_of_vec(max_degrees),
               SumSeq(max_degrees), Len(max_degrees))

(* calculate_connected_components *)

ComponentsCity ==
    /\ fn = "calculate_connected_components"
    /\ BfsReturns
    /\ max_degrees' = Append(max_degrees, max_value(distances))
    /\ UNCHANGED <<total_length, total_paths, separation_distribution, all_distances>>

\* .collect::<HashSet<_>>().len()
distinct_len(v) == Cardinality({v[i] : i \in DOMAIN v})

ComponentsReturns ==
    /\ fn = "calculate_connected_components"
    /\ Returns("connected_components" :> distinct_len(max_degrees),
               0, Len(max_degrees))

(* calculate_average_shortest_path_length *)

\* if distance > 0
path_counted(distance) == distance > 0

AveragePathCity ==
    /\ fn = "calculate_average_shortest_path_length"
    /\ BfsReturns
    /\ LET counted == {k \in DOMAIN distances : path_counted(distances[k])}
       IN /\ total_length' = total_length + SumMap([k \in counted |-> distances[k]])
          /\ total_paths' = total_paths + Cardinality(counted)
    /\ UNCHANGED <<max_degrees, separation_distribution, all_distances>>

AveragePathReturns ==
    /\ fn = "calculate_average_shortest_path_length"
    /\ Returns("average_shortest_path_length" :>
                   FDiv(AsF64(total_length), AsF64(total_paths)),
               total_length, total_paths)

(* calculate_mean_and_std_dev *)

\* A filter that lets the distance 0 of the start node through.
separation_counted_all(distance) == distance >= 0
\* if distance > 0
separation_counted(distance) == distance > 0

\* all_distances.push(distance) for every counted value of one distance map.
\* distances.values() yields them in an unspecified order; all that reads the
\* Vec (sum, len, the sum of the squared differences) is independent of the
\* order of its elements, so the Vec is kept here in ascending order.
RECURSIVE SortedPush(_, _)
SortedPush(vec, distance) ==
    IF vec = << >> THEN << distance >>
    ELSE IF distance <= Head(vec) THEN << distance >> \o vec
    ELSE << Head(vec) >> \o SortedPush(Tail(vec), distance)

RECURSIVE push_counted(_, _)
push_counted(vec, dist) ==
    IF DOMAIN dist = {} THEN vec
    ELSE LET k == CHOOSE x \in DOMAIN dist : TRUE
             rest == [x \in (DOMAIN dist) \ {k} |-> dist[x]]
         IN push_counted(IF separation_counted(dist[k])
                            THEN SortedPush(vec, dist[k]) ELSE vec,
                         rest)

MeanStdCity ==
    /\ fn = "calculate_mean_and_std_dev"
    /\ BfsReturns
    /\ all_distances' = push_counted(all_distances, distances)
    /\ UNCHANGED <<max_degrees, total_length, total_paths, separation_distribution>>

RECURSIVE FSumSeq(_)
FSumSeq(s) == IF s = << >> THEN AsF64(0) ELSE FAdd(Head(s), FSumSeq(Tail(s)))

\* all_distances.iter().sum::<i32>() as f64 / all_distances.len() as f64
mean_of(v) == FDiv(AsF64(SumSeq(v)), AsF64(Len(v)))

\* the mean of the squared differences from the mean
variance_of(v, mean) ==
    LET squares == [i \in DOMAIN v |->
                       LET diff == FSub(AsF64(v[i]), mean) IN FMul(diff, diff)]
    IN FDiv(FSumSeq(squares), AsF64(Len(v)))

MeanStdReturns ==
    /\ fn = "calculate_mean_and_std_dev"
    /\ LET mean == mean_of(all_distances)
           variance == variance_of(all_distances, mean)
       IN Returns(("mean" :> mean) @@ ("std_dev" :> Sqrt(variance)),
                  SumSeq(all_distances), Len(all_distances))

(* calculate_normalized_separation_distribution *)

\* if length > 0
length_counted(length) == length > 0

\* total_paths incremented outside the if, for every entry of the map.
paths_seen_all(dist) == Cardinality(DOMAIN dist)
\* total_paths += 1, once per counted length of one distance map
paths_seen(dist) == Cardinality({k \in DOMAIN dist : length_counted(dist[k])})

\* *separation_distribution.entry(length).or_insert(0) += 1
tally_lengths(distribution, dist) ==
    LET counted == {k \in DOMAIN dist : length_counted(dist[k])}
        lengths == {dist[k] : k \in counted}
    IN [l \in (DOMAIN distribution) \cup lengths |->
           (IF l \in DOMAIN distribution THEN distribution[l] ELSE 0)
           + Cardinality({k \in counted : dist[k] = l})]

DistributionCity ==
    /\ fn = "calculate_normalized_separation_distribution"
    /\ BfsReturns
    /\ separation_distribution' = tally_lengths(separation_distribution, distances)
    /\ total_paths' = total_paths + paths_seen(distances)
    /\ UNCHANGED <<max_degrees, total_length, all_distances>>

\* (degree, count as f64 / total_paths as f64)
normalize(distribution, total) ==
    [degree \in DOMAIN distribution |->
        FDiv(AsF64(distribution[degree]), AsF64(total))]

\* max_by(partial_cmp).unwrap_or((&0, &0.0)): an entry no other entry exceeds;
\* which one of several depends on the map's iteration order.
MaxEntries(normalized) ==
    IF DOMAIN normalized = {} THEN { <<0, AsF64(0)>> }
    ELSE { <<degree, normalized[degree]>> :
             degree \in {d \in DOMAIN normalized :
                           \A e \in DOMAIN normalized :
                               ~FLess(normalized[d], normalized[e])} }

DistributionReturns ==
    /\ fn = "calculate_normalized_separation_distribution"
    /\ LET normalized == normalize(separation_distribution, total_paths)
       IN \E best \in MaxEntries(normalized) :
             Returns(("normalized_separation_distribution" :> normalized)
                        @@ ("degree_with_max_percentage" :> best[1])
                        @@ ("max_percentage" :> best[2]),
                     SumMap(separation_distribution), total_paths)

----------------------------------------------------------------------------

Next ==
    \/ Call
    \/ NextCity
    \/ PopFront
    \/ VisitNeighbor
    \/ MaxDegreeCity
    \/ MaxDegreeReturns
    \/ AverageMaxCity
    \/ AverageMaxReturns
    \/ ComponentsCity
    \/ ComponentsReturns
    \/ AveragePathCity
    \/ AveragePathReturns
    \/ MeanStdCity
    \/ MeanStdReturns
    \/ DistributionCity
    \/ DistributionReturns

Spec == Init /\ [][Next]_vars

\* main has printed its last line.
Done == pc = "main" /\ next_call > Len(Calls)

----------------------------------------------------------------------------
(* What the properties are stated with *)

Keys == DOMAIN adjacency_list

\* The nodes at most k hops from s along the neighbor relation.
RECURSIVE Within(_, _, _)
Within(store, s, k) ==
    IF k = 0 THEN {s}
    ELSE LET near == Within(store, s, k - 1)
         IN near \cup UNION {store[u] : u \in near \cap DOMAIN store}

Reachable(store, s) == Within(store, s, Cardinality(DOMAIN store))

\* The least number of hops from s to a node reachable from it.
MinHops(store, s, n) ==
    CHOOSE k \in 0..Cardinality(DOMAIN store) :
        /\ n \in Within(store, s, k)
        /\ k = 0 \/ n \notin Within(store, s, k - 1)

Reported(field) == field \in DOMAIN report

RECURSIVE FSumMap(_)
FSumMap(m) ==
    IF DOMAIN m = {} THEN AsF64(0)
    ELSE LET k == CHOOSE x \in DOMAIN m : TRUE
         IN FAdd(m[k], FSumMap([x \in (DOMAIN m) \ {k} |-> m[x]]))

StartIsKey == Closed(adjacency_list) /\ city \in Keys

----------------------------------------------------------------------------
(* C1: on a store in which every neighbor is a key, the map bfs returns for a
   key s has as its keys exactly the nodes reachable from s, s included, and
   maps each of them to its least number of hops from s: s to 0. *)
C1_BfsMinimumHops ==
    \A s \in DOMAIN maps :
        (Closed(adjacency_list) /\ s \in Keys) =>
            /\ DOMAIN maps[s] = Reachable(adjacency_list, s)
            /\ \A n \in DOMAIN maps[s] : maps[s][n] = MinHops(adjacency_list, s, n)
            /\ maps[s][s] = 0

\* bfs has returned from a key that reaches a node in two hops and no fewer,
\* although the store holds a key it does not reach.
C1_Witness ==
    /\ pc = "returned"
    /\ StartIsKey
    /\ \E n \in DOMAIN maps[city] : maps[city][n] = 2
    /\ Keys \ DOMAIN maps[city] # {}

(* C3: on a symmetric store, if bfs from u reaches v then bfs from v reaches
   u, and at the same distance. *)
C3_Symmetry ==
    Symmetric(adjacency_list) =>
        \A u \in DOMAIN maps : \A v \in DOMAIN maps :
            v \in DOMAIN maps[u] =>
                u \in DOMAIN maps[v] /\ maps[u][v] = maps[v][u]

\* Both runs of a pair of nodes two hops apart have returned.
C3_Witness ==
    /\ Symmetric(adjacency_list)
    /\ \E u \in DOMAIN maps : \E v \in DOMAIN maps :
          /\ u # v
          /\ v \in DOMAIN maps[u]
          /\ maps[u][v] = 2
          /\ maps[v][u] = 2

(* C7: in a run of bfs no node is pushed on the queue more than once, none
   is popped more than once, and the distance map has an entry exactly for
   the popped nodes: each entry is written once and not written again. *)
C7_EnqueuedOnce ==
    (pc \in {"bfs", "returned"}) =>
        /\ \A n \in DOMAIN pushes : pushes[n] = 1
        /\ \A n \in DOMAIN pops : pops[n] = 1
        /\ DOMAIN pops \subseteq DOMAIN pushes
        /\ DOMAIN distances = DOMAIN pops

\* The run is over and the visited gate has refused a neighbor: some edge
\* leads from a popped node to a node that is no farther from the start.
C7_Witness ==
    /\ pc = "returned"
    /\ Cardinality(DOMAIN pops) >= 3
    /\ \E u \in DOMAIN distances : \E v \in adjacency_list[u] :
          distances[v] <= distances[u]

(* C8: bfs from a key of a store in which every neighbor is a key pops at
   most as many entries as the store has keys, and returns. *)
C8_Terminates ==
    /\ [](StartIsKey => SumMap(pops) <= Cardinality(Keys))
    /\ ((StartIsKey /\ pc = "bfs") ~> (pc = "returned"))

\* bfs has returned after popping every key of a store that has a cycle
\* through the start node.
C8_Witness ==
    /\ pc = "returned"
    /\ StartIsKey
    /\ SumMap(pops) = Cardinality(Keys)
    /\ Cardinality(Keys) >= 3
    /\ \E u \in Keys \ {city} : city \in adjacency_list[u]

(* C10: the distances of the queue's entries never decrease from front to
   back and the last exceeds the first by at most 1; no entry of the queue
   has a smaller distance than the entry popped last, nor one larger by more
   than 1, so entries are popped in non-decreasing order of distance. *)
C10_QueueMonotone ==
    (pc = "bfs") =>
        /\ \A i, j \in DOMAIN queue : i <= j => queue[i][2] <= queue[j][2]
        /\ queue # << >> => queue[Len(queue)][2] <= queue[1][2] + 1
        /\ current # NoEntry =>
              \A i \in DOMAIN queue :
                  current[2] <= queue[i][2] /\ queue[i][2] <= current[2] + 1

\* The queue holds entries of two consecutive levels.
C10_Witness ==
    /\ pc = "bfs"
    /\ Len(queue) >= 2
    /\ queue[Len(queue)][2] = queue[1][2] + 1

----------------------------------------------------------------------------
(* The statistics *)

distribution_call == "calculate_normalized_separation_distribution"
average_path_call == "calculate_average_shortest_path_length"
mean_std_call == "calculate_mean_and_std_dev"

NoEdges == Keys # {} /\ \A k \in Keys : adjacency_list[k] = {}

(* C2 as claimed: on every store the values of the returned distribution sum
   to 1. *)
C2_SumsToOneOnEveryInput ==
    Reported("normalized_separation_distribution") =>
        FSumMap(report["normalized_separation_distribution"]) = AsF64(1)

(* C2: the per-length counts add up to total_paths; when total_paths is
   positive the values of the returned distribution sum to 1, and when no
   positive distance was collected the returned distribution is empty. *)
C2_SumsToOne ==
    Reported("normalized_separation_distribution") =>
        LET returned == report["normalized_separation_distribution"]
            counts == tally[distribution_call].sum
            total == tally[distribution_call].count
        IN /\ counts = total
           /\ total > 0 => FSumMap(returned) = AsF64(1)
           /\ total = 0 => returned = EmptyMap

\* A distribution over two path lengths has been returned.
C2_Witness ==
    /\ Reported("normalized_separation_distribution")
    /\ Cardinality(DOMAIN report["normalized_separation_distribution"]) >= 2

(* C4: on a store with keys and no neighbor at all,
   calculate_connected_components returns the number of keys. *)
C4_IsolatedNodesCounted ==
    (Reported("connected_components") /\ NoEdges) =>
        report["connected_components"] = Cardinality(Keys)

(* C5: when no positive distance is collected, the average path length and
   the mean are finite values: no division by a zero count. *)
C5_DefinedWithoutPaths ==
    /\ (Reported("average_shortest_path_length")
           /\ tally[average_path_call].count = 0) =>
          IsFinite(report["average_shortest_path_length"])
    /\ (Reported("mean") /\ tally[mean_std_call].count = 0) =>
          IsFinite(report["mean"])

(* C6 as claimed: on the sample network 1 - 2 - 3 the average max degree is
   (1 + 2 + 1)/3. *)
C6_SampleAverageFourThirds ==
    (Reported("average_max_degree") /\ adjacency_list = build_sample_network) =>
        report["average_max_degree"] = Frac(4, 3)

(* C6: on the sample network 1 - 2 - 3 the average max degree, the mean of
   the eccentricities 2, 1 and 2 of its nodes, is 5/3. *)
C6_SampleAverageFiveThirds ==
    (Reported("average_max_degree") /\ adjacency_list = build_sample_network) =>
        /\ tally["calculate_average_max_degree"] = [sum |-> 5, count |-> 3]
        /\ report["average_max_degree"] = Frac(5, 3)

\* calculate_average_max_degree has returned on the sample network.
C6_Witness ==
    /\ Reported("average_max_degree")
    /\ adjacency_list = build_sample_network

(* C9: the average path length and the mean are quotients of the same sum by
   the same count, the count is the distribution's total_paths, and the two
   quotients are the same value. *)
C9_SameAverages ==
    /\ (Reported("average_shortest_path_length") /\ Reported("mean")) =>
          /\ tally[average_path_call] = tally[mean_std_call]
          /\ report["average_shortest_path_length"] = report["mean"]
    /\ (Reported("mean") /\ Reported("normalized_separation_distribution")) =>
          tally[mean_std_call].count = tally[distribution_call].count

\* All three have returned on a store with distances 1 and 2.
C9_Witness ==
    /\ Done
    /\ tally[average_path_call].count >= 4
    /\ tally[average_path_call].sum > tally[average_path_call].count

====
